---- MODULE Spec2Model ----
(***************************************************************************)
(* Model of Super_resolution/ffdnet.py: main(), train() and test() as one  *)
(* sequential state machine.  The network (model.FFDNet) and utils are     *)
(* opaque: a forward pass is recorded by what the driver hands to it       *)
(* (mode, devices, spatial size), parameters by a version counter.         *)
(***************************************************************************)
EXTENDS Integers, Sequences, FiniteSets, TLC

\* ---------------------------------------------------------------- bounds
MaxEpochs == 5
MaxBatches == 2
MaxValBatches == 1
MaxFiles == 2
MaxDim == 3

\* ------------------------------------------------------------- constants
\* (epoch_idx + 1) % 5 == 0
SavePeriod == 5
\* --noise_sigma default and the /= 255 normalisation
NoiseSigmaDefault == 25
NoiseScale == 255

\* inputs of --train_noise_interval / --val_noise_interval / --val_epoch
TrainIntervals == {<<0, 75, 15>>, <<0, 15, 15>>, <<10, 0, 5>>}
ValIntervals == {<<0, 60, 30>>, <<30, 0, 30>>}
ValEpochs == {2, 5}

VARIABLES pc, err, argv, args, cuda_available,
          trainCalled, trainReturned, testCalled,
          train_noises, val_noises, nTrain, nVal,
          device, model_device, model_training,
          epoch_idx, batch_idx, noise_idx, loss_idx,
          params, nUpdates, ckpt, filesRead, filesWritten,
          savedEpochs, valEpochs, lastCall,
          nFiles, file_idx, outputs, noisyWritten, badFiles

vars == <<pc, err, argv, args, cuda_available,
          trainCalled, trainReturned, testCalled,
          train_noises, val_noises, nTrain, nVal,
          device, model_device, model_training,
          epoch_idx, batch_idx, noise_idx, loss_idx,
          params, nUpdates, ckpt, filesRead, filesWritten,
          savedEpochs, valEpochs, lastCall,
          nFiles, file_idx, outputs, noisyWritten, badFiles>>

mainVars == <<trainCalled, trainReturned, testCalled>>
trainCfg == <<train_noises, val_noises, nTrain, nVal, device>>
loopVars == <<epoch_idx, batch_idx, noise_idx, loss_idx>>
testVars == <<nFiles, file_idx, outputs, noisyWritten, badFiles>>

\* ------------------------------------------------------------- helpers
\* list(range(lo, hi, step)) for step # 0
PyRange(lo, hi, step) ==
    LET n == IF step > 0
             THEN (IF hi > lo THEN (hi - lo + step - 1) \div step ELSE 0)
             ELSE (IF lo > hi THEN (lo - hi - step - 1) \div (0 - step) ELSE 0)
    IN [i \in 1..n |-> lo + (i - 1) * step]

\* args.train_noise_interval[1] += 1
AdjustInterval_NoAdjust(iv) == iv

AdjustInterval(iv) == <<iv[1], iv[2] + 1, iv[3]>>

\* assert (args.is_train or args.is_test)
AssertOK_Both(a) == a.is_train /\ a.is_test

AssertOK(a) == a.is_train \/ a.is_test

\* 'net_gray.pth' if is_gray else 'net_rgb.pth'
CkptName(is_gray) == IF is_gray THEN "net_gray.pth" ELSE "net_rgb.pth"

CkptNames == {"net_gray.pth", "net_rgb.pth"}

\* test(): is_gray = True
TestIsGray == TRUE

\* torch.device('cuda:8' if torch.cuda.is_available() else 'cpu') / 'cpu'
TrainDevice(a, avail) == IF a.cuda THEN (IF avail THEN "cuda:8" ELSE "cpu") ELSE "cpu"

\* x.cuda(): the current (default) accelerator
CudaDefault == "cuda:0"

\* if image.shape[k] % 2 != 0: expend = True
Expend(d) == d % 2 # 0

\* np.concatenate of the last row/column when the dimension is odd
PadDim_Never(d) == d

PadDim(d) == IF Expend(d) THEN d + 1 ELSE d

\* image_pred[:, :, :-1, :] when the dimension was expanded
CropDim(d, expended) == IF expended THEN d - 1 ELSE d

\* outcomes of calling the network: on one device it returns; with operands
\* on different devices the opaque network may raise or may move them itself
ForwardOutcomes(mdev, idev, sdev) ==
    IF mdev = idev /\ idev = sdev THEN {"ok"} ELSE {"ok", "RuntimeError"}

NoCall == [phase |-> "none", training |-> FALSE, returned |-> FALSE,
           stepped |-> FALSE,
           mdev |-> "none", idev |-> "none", sdev |-> "none", sigma |-> 0,
           origw |-> 0, origh |-> 0, inw |-> 0, inh |-> 0, outw |-> 0, outh |-> 0]

NoFile == [state |-> "unknown", version |-> 0]

Raise(e) == pc' = "raised" /\ err' = e

\* ---------------------------------------------------------------- Init
Init ==
    /\ pc = "start"
    /\ err = "none"
    /\ cuda_available \in BOOLEAN
    /\ args \in [is_train : BOOLEAN, is_test : BOOLEAN, is_gray : BOOLEAN,
                 use_gpu : BOOLEAN, cuda : {FALSE}, add_noise : BOOLEAN,
                 epoches : 0..MaxEpochs, val_epoch : ValEpochs,
                 train_noise_interval : TrainIntervals,
                 val_noise_interval : ValIntervals,
                 noise_sigma : {<<NoiseSigmaDefault, 1>>}]
    /\ argv = [train_noise_interval |-> args.train_noise_interval,
               val_noise_interval |-> args.val_noise_interval]
    /\ trainCalled = FALSE /\ trainReturned = FALSE /\ testCalled = FALSE
    /\ train_noises = <<>> /\ val_noises = <<>>
    /\ nTrain = 0 /\ nVal = 0
    /\ device = "none" /\ model_device = "none" /\ model_training = FALSE
    /\ epoch_idx = 0 /\ batch_idx = 0 /\ noise_idx = 0 /\ loss_idx = 0
    /\ params = 0 /\ nUpdates = 0
    /\ ckpt = [f \in CkptNames |-> NoFile]
    /\ filesRead = {} /\ filesWritten = {}
    /\ savedEpochs = {} /\ valEpochs = {}
    /\ lastCall = NoCall
    /\ nFiles = 0 /\ file_idx = 0 /\ outputs = <<>> /\ noisyWritten = FALSE
    /\ badFiles = {}

\* ---------------------------------------------------------------- main
\* lines 302-317/320: assertion, args.cuda, normalisation, first dispatch
Main ==
    /\ pc = "start"
    /\ IF ~AssertOK(args)
       THEN /\ Raise("AssertionError")
            /\ UNCHANGED <<args, mainVars>>
       ELSE /\ args' = [args EXCEPT
                  !.cuda = args.use_gpu /\ cuda_available,
                  !.noise_sigma = <<args.noise_sigma[1], args.noise_sigma[2] * NoiseScale>>,
                  !.train_noise_interval = AdjustInterval(args.train_noise_interval),
                  !.val_noise_interval = AdjustInterval(args.val_noise_interval)]
            /\ err' = err
            /\ IF args.is_train
               THEN pc' = "train_setup" /\ trainCalled' = TRUE /\ testCalled' = testCalled
               ELSE pc' = "test_setup" /\ testCalled' = TRUE /\ trainCalled' = trainCalled
            /\ trainReturned' = trainReturned
    /\ UNCHANGED <<argv, cuda_available, trainCfg, model_device, model_training, loopVars,
                   params, nUpdates, ckpt, filesRead, filesWritten,
                   savedEpochs, valEpochs, lastCall, testVars>>

\* lines 319-320: train() has returned
MainAfterTrain ==
    /\ pc = "train_returned"
    /\ IF args.is_test
       THEN pc' = "test_setup" /\ testCalled' = TRUE
       ELSE pc' = "exit" /\ testCalled' = testCalled
    /\ UNCHANGED <<err, argv, args, cuda_available, trainCalled, trainReturned, trainCfg,
                   model_device, model_training, loopVars, params, nUpdates, ckpt,
                   filesRead, filesWritten, savedEpochs, valEpochs, lastCall, testVars>>

\* ---------------------------------------------------------------- train
\* lines 66-103: datasets, loaders, noise lists, model, device, optimizer
TrainSetup ==
    /\ pc = "train_setup"
    /\ \E b \in 1..MaxBatches, v \in 1..MaxValBatches :
          nTrain' = b /\ nVal' = v
    /\ train_noises' = PyRange(args.train_noise_interval[1],
                               args.train_noise_interval[2],
                               args.train_noise_interval[3])
    /\ val_noises' = PyRange(args.val_noise_interval[1],
                             args.val_noise_interval[2],
                             args.val_noise_interval[3])
    /\ device' = TrainDevice(args, cuda_available)
    /\ model_device' = device'
    /\ model_training' = TRUE
    /\ params' = 0
    /\ epoch_idx' = 0
    /\ pc' = "epoch_head"
    /\ UNCHANGED <<err, argv, args, cuda_available, mainVars, batch_idx, noise_idx, loss_idx,
                   nUpdates, ckpt, filesRead, filesWritten, savedEpochs, valEpochs,
                   lastCall, testVars>>

\* lines 106-112: for epoch_idx in range(args.epoches): ... model.train()
EpochHead ==
    /\ pc = "epoch_head"
    /\ IF epoch_idx < args.epoches
       THEN /\ loss_idx' = 0
            /\ batch_idx' = 0
            /\ noise_idx' = 0
            /\ model_training' = TRUE
            /\ pc' = "train_loop"
       ELSE /\ pc' = "final_save"
            /\ UNCHANGED <<loss_idx, batch_idx, noise_idx, model_training>>
    /\ UNCHANGED <<err, argv, args, cuda_available, mainVars, trainCfg, model_device, epoch_idx,
                   params, nUpdates, ckpt, filesRead, filesWritten, savedEpochs,
                   valEpochs, lastCall, testVars>>

\* lines 115-133: one (batch, noise level) iteration of the training loop
TrainStep ==
    /\ pc = "train_loop"
    /\ batch_idx < nTrain
    /\ noise_idx < Len(train_noises)
    /\ LET idev == IF args.cuda THEN device ELSE "cpu"
           sdev == IF args.cuda THEN device ELSE "cpu"
       IN \E out \in ForwardOutcomes(model_device, idev, sdev) :
            /\ lastCall' = [NoCall EXCEPT !.phase = "train",
                               !.training = model_training,
                               !.returned = (out = "ok"),
                               !.stepped = (out = "ok"),
                               !.mdev = model_device, !.idev = idev, !.sdev = sdev,
                               !.sigma = train_noises[noise_idx + 1]]
            /\ IF out = "ok"
               THEN /\ loss_idx' = loss_idx + 1
                    /\ params' = params + 1
                    /\ nUpdates' = nUpdates + 1
                    /\ noise_idx' = noise_idx + 1
                    /\ UNCHANGED <<pc, err>>
               ELSE /\ Raise(out)
                    /\ UNCHANGED <<loss_idx, params, nUpdates, noise_idx>>
    /\ UNCHANGED <<argv, args, cuda_available, mainVars, trainCfg, model_device, model_training,
                   epoch_idx, batch_idx, ckpt, filesRead, filesWritten, savedEpochs,
                   valEpochs, testVars>>

\* line 113: the noise loop of this batch is exhausted, next batch
TrainNextBatch ==
    /\ pc = "train_loop"
    /\ batch_idx < nTrain
    /\ noise_idx = Len(train_noises)
    /\ batch_idx' = batch_idx + 1
    /\ noise_idx' = 0
    /\ UNCHANGED <<pc, err, argv, args, cuda_available, mainVars, trainCfg, model_device,
                   model_training, epoch_idx, loss_idx, params, nUpdates, ckpt,
                   filesRead, filesWritten, savedEpochs, valEpochs, lastCall, testVars>>

\* (epoch_idx + 1) % 5 == 0
IsSaveEpoch(e) == (e + 1) % SavePeriod = 0

\* lines 152-165: average, periodic save, or continue with the next epoch
TrainEpochEnd ==
    /\ pc = "train_loop"
    /\ batch_idx = nTrain
    /\ IF loss_idx = 0
       THEN /\ Raise("ZeroDivisionError")
            /\ UNCHANGED <<loss_idx, batch_idx, noise_idx, epoch_idx, ckpt,
                           filesWritten, savedEpochs>>
       ELSE IF IsSaveEpoch(epoch_idx)
       THEN /\ ckpt' = [ckpt EXCEPT ![CkptName(args.is_gray)] =
                           [state |-> "saved", version |-> params]]
            /\ filesWritten' = filesWritten \cup {CkptName(args.is_gray)}
            /\ savedEpochs' = savedEpochs \cup {epoch_idx + 1}
            /\ loss_idx' = 0
            /\ batch_idx' = 0
            /\ noise_idx' = 0
            /\ pc' = "val_loop"
            /\ UNCHANGED <<err, epoch_idx>>
       ELSE /\ loss_idx' = 0
            /\ epoch_idx' = epoch_idx + 1
            /\ pc' = "epoch_head"
            /\ UNCHANGED <<err, batch_idx, noise_idx, ckpt, filesWritten, savedEpochs>>
    /\ UNCHANGED <<argv, args, cuda_available, mainVars, trainCfg, model_device, model_training,
                   params, nUpdates, filesRead, valEpochs, lastCall, testVars>>

\* lines 170-200: one (batch, noise level) iteration of the validation loop
ValStep ==
    /\ pc = "val_loop"
    /\ batch_idx < nVal
    /\ noise_idx < Len(val_noises)
    /\ LET idev == IF args.cuda THEN CudaDefault ELSE "cpu"
           sdev == IF args.cuda THEN CudaDefault ELSE "cpu"
       IN \E out \in ForwardOutcomes(model_device, idev, sdev) :
            /\ lastCall' = [NoCall EXCEPT !.phase = "val",
                               !.training = model_training,
                               !.returned = (out = "ok"),
                               !.stepped = FALSE,
                               !.mdev = model_device, !.idev = idev, !.sdev = sdev,
                               !.sigma = val_noises[noise_idx + 1]]
            /\ IF out = "ok"
               THEN /\ loss_idx' = loss_idx + 1
                    /\ noise_idx' = noise_idx + 1
                    /\ UNCHANGED <<pc, err>>
               ELSE /\ Raise(out)
                    /\ UNCHANGED <<loss_idx, noise_idx>>
    /\ UNCHANGED <<argv, args, cuda_available, mainVars, trainCfg, model_device, model_training,
                   epoch_idx, batch_idx, params, nUpdates, ckpt, filesRead, filesWritten,
                   savedEpochs, valEpochs, testVars>>

\* line 168: the noise loop of this validation batch is exhausted
ValNextBatch ==
    /\ pc = "val_loop"
    /\ batch_idx < nVal
    /\ noise_idx = Len(val_noises)
    /\ batch_idx' = batch_idx + 1
    /\ noise_idx' = 0
    /\ UNCHANGED <<pc, err, argv, args, cuda_available, mainVars, trainCfg, model_device,
                   model_training, epoch_idx, loss_idx, params, nUpdates, ckpt,
                   filesRead, filesWritten, savedEpochs, valEpochs, lastCall, testVars>>

\* lines 202-203: average of the validation pass, then the next epoch
ValEnd ==
    /\ pc = "val_loop"
    /\ batch_idx = nVal
    /\ IF loss_idx = 0
       THEN /\ Raise("ZeroDivisionError")
            /\ UNCHANGED <<epoch_idx, valEpochs>>
       ELSE /\ valEpochs' = valEpochs \cup {epoch_idx + 1}
            /\ epoch_idx' = epoch_idx + 1
            /\ pc' = "epoch_head"
            /\ err' = err
    /\ UNCHANGED <<argv, args, cuda_available, mainVars, trainCfg, model_device, model_training,
                   batch_idx, noise_idx, loss_idx, params, nUpdates, ckpt, filesRead,
                   filesWritten, savedEpochs, lastCall, testVars>>

\* lines 205-210: model.eval(), final save, return to main
FinalSave ==
    /\ pc = "final_save"
    /\ model_training' = FALSE
    /\ ckpt' = [ckpt EXCEPT ![CkptName(args.is_gray)] =
                   [state |-> "saved", version |-> params]]
    /\ filesWritten' = filesWritten \cup {CkptName(args.is_gray)}
    /\ trainReturned' = TRUE
    /\ pc' = "train_returned"
    /\ UNCHANGED <<err, argv, args, cuda_available, trainCalled, testCalled, trainCfg,
                   model_device, loopVars, params, nUpdates, filesRead, savedEpochs,
                   valEpochs, lastCall, testVars>>

\* ---------------------------------------------------------------- test
\* lines 215-224: checkpoint load, model.cuda(), model.eval(), os.listdir
TestSetup ==
    /\ pc = "test_setup"
    /\ LET name == CkptName(TestIsGray)
       IN /\ filesRead' = filesRead \cup {name}
          /\ \E exists \in BOOLEAN, n \in 0..MaxFiles :
               /\ ckpt[name].state = "unknown" \/ exists
               /\ IF ~exists
                  THEN /\ Raise("FileNotFoundError")
                       /\ UNCHANGED <<ckpt, params, model_device, model_training, nFiles>>
                  ELSE /\ ckpt' = IF ckpt[name].state = "unknown"
                                  THEN [ckpt EXCEPT ![name].state = "pre"]
                                  ELSE ckpt
                       /\ params' = ckpt[name].version
                       /\ IF ~cuda_available
                          THEN /\ Raise("CudaUnavailable")
                               /\ UNCHANGED <<model_device, model_training, nFiles>>
                          ELSE /\ model_device' = CudaDefault
                               /\ model_training' = FALSE
                               /\ nFiles' = n
                               /\ pc' = "test_loop"
                               /\ err' = err
    /\ file_idx' = 0
    /\ UNCHANGED <<argv, args, cuda_available, mainVars, trainCfg, loopVars, nUpdates,
                   filesWritten, savedEpochs, valEpochs, lastCall, outputs,
                   noisyWritten, badFiles>>

\* lines 227-229: cv2.imread returned None
TestDecodeFail_Skip ==
    /\ pc = "test_loop"
    /\ file_idx < nFiles
    /\ badFiles' = badFiles \cup {file_idx}
    /\ file_idx' = file_idx + 1
    /\ UNCHANGED <<pc, err, argv, args, cuda_available, mainVars, trainCfg, model_device,
                   model_training, loopVars, params, nUpdates, ckpt, filesRead,
                   filesWritten, savedEpochs, valEpochs, lastCall, nFiles, outputs,
                   noisyWritten>>

TestDecodeFail ==
    /\ pc = "test_loop"
    /\ file_idx < nFiles
    /\ badFiles' = badFiles \cup {file_idx}
    /\ Raise("DecodeError")
    /\ UNCHANGED <<argv, args, cuda_available, mainVars, trainCfg, model_device,
                   model_training, loopVars, params, nUpdates, ckpt, filesRead,
                   filesWritten, savedEpochs, valEpochs, lastCall, nFiles, file_idx,
                   outputs, noisyWritten>>

\* lines 230-274: one decodable file: pad, noise, forward, crop, write
TestImage ==
    /\ pc = "test_loop"
    /\ file_idx < nFiles
    /\ \E W \in 1..MaxDim, H \in 1..MaxDim :
         LET expend_W == Expend(W)
             expend_H == Expend(H)
             inw == PadDim(W)
             inh == PadDim(H)
             idev == IF args.cuda THEN CudaDefault ELSE "cpu"
             sdev == IF args.cuda THEN CudaDefault ELSE "cpu"
         IN \E out \in ForwardOutcomes(model_device, idev, sdev) :
              /\ lastCall' = [NoCall EXCEPT !.phase = "test",
                                 !.training = model_training,
                                 !.returned = (out = "ok"),
                                 !.mdev = model_device, !.idev = idev, !.sdev = sdev,
                                 !.sigma = args.noise_sigma[1],
                                 !.origw = W, !.origh = H,
                                 !.inw = inw, !.inh = inh,
                                 !.outw = IF out = "ok" THEN CropDim(inw, expend_W) ELSE 0,
                                 !.outh = IF out = "ok" THEN CropDim(inh, expend_H) ELSE 0]
              /\ IF out = "ok"
                 THEN /\ outputs' = Append(outputs, file_idx)
                      /\ noisyWritten' = (noisyWritten \/ args.add_noise)
                      /\ file_idx' = file_idx + 1
                      /\ UNCHANGED <<pc, err>>
                 ELSE /\ Raise(out)
                      /\ UNCHANGED <<outputs, noisyWritten, file_idx>>
    /\ UNCHANGED <<argv, args, cuda_available, mainVars, trainCfg, model_device,
                   model_training, loopVars, params, nUpdates, ckpt, filesRead,
                   filesWritten, savedEpochs, valEpochs, nFiles, badFiles>>

\* line 225: the listing is exhausted, test() and main() return
TestDone ==
    /\ pc = "test_loop"
    /\ file_idx = nFiles
    /\ pc' = "exit"
    /\ UNCHANGED <<err, argv, args, cuda_available, mainVars, trainCfg, model_device,
                   model_training, loopVars, params, nUpdates, ckpt, filesRead,
                   filesWritten, savedEpochs, valEpochs, lastCall, testVars>>

Next ==
    \/ Main \/ MainAfterTrain
    \/ TrainSetup \/ EpochHead \/ TrainStep \/ TrainNextBatch \/ TrainEpochEnd
    \/ ValStep \/ ValNextBatch \/ ValEnd \/ FinalSave
    \/ TestSetup \/ TestDecodeFail \/ TestImage \/ TestDone

Spec == Init /\ [][Next]_vars

\* ---------------------------------------------------------------- claims
TrainActive == trainCalled /\ ~trainReturned
AfterTrainSetup == trainCalled /\ pc # "train_setup"
NoEffects ==
    /\ nUpdates = 0 /\ lastCall = NoCall
    /\ filesWritten = {} /\ filesRead = {}
    /\ outputs = <<>> /\ ~noisyWritten

\* C1: with neither is_train nor is_test the run aborts with an assertion
\* failure before any training step, inference step, checkpoint write or
\* output write; with at least one flag the assertion passes, train is
\* entered iff is_train, test is entered iff is_test and only after train
\* has returned when both are set.
C1_AssertGate ==
    /\ (pc # "start") => ((err = "AssertionError") <=> (~args.is_train /\ ~args.is_test))
    /\ (err = "AssertionError") =>
          (pc = "raised" /\ NoEffects /\ ~trainCalled /\ ~testCalled)
    /\ trainCalled => args.is_train
    /\ testCalled => (args.is_test /\ (args.is_train => trainReturned))
    /\ (pc # "start" /\ args.is_train) => trainCalled
    /\ (pc # "start" /\ ~args.is_train /\ args.is_test) => testCalled
    /\ (trainReturned /\ pc # "train_returned" /\ args.is_test) => testCalled
    /\ (nUpdates > 0 \/ lastCall.phase \in {"train", "val"} \/ filesWritten # {})
          => trainCalled
    /\ (lastCall.phase = "test" \/ outputs # <<>> \/ filesRead # {}) => testCalled

C1_Witness ==
    pc = "raised" /\ err = "AssertionError" /\ ~args.is_train /\ ~args.is_test

\* C2 (as stated): for the configured interval (0, 75, 15) the training noise
\* levels are exactly 0, 15, 30, 45, 60.
C2_FiveLevels ==
    (AfterTrainSetup /\ argv.train_noise_interval = <<0, 75, 15>>)
        => train_noises = <<0, 15, 30, 45, 60>>

\* C2 (amended): for the configured interval (0, 75, 15) the training noise
\* levels are exactly 0, 15, 30, 45, 60, 75 in increasing order, and every
\* training forward pass uses one of them.
C2_SixLevels ==
    (AfterTrainSetup /\ argv.train_noise_interval = <<0, 75, 15>>)
        => /\ train_noises = <<0, 15, 30, 45, 60, 75>>
           /\ lastCall.phase = "train" => lastCall.sigma \in {0, 15, 30, 45, 60, 75}

C2_Witness ==
    /\ argv.train_noise_interval = <<0, 75, 15>>
    /\ lastCall.phase = "train" /\ lastCall.sigma = 75 /\ lastCall.stepped

\* C3: the periodic checkpoint save and the validation pass happen in exactly
\* the epochs whose 1-based index is a multiple of val_epoch.
C3_ValEveryK ==
    (pc = "epoch_head") =>
        LET due == {e \in 1..epoch_idx : e % args.val_epoch = 0}
        IN savedEpochs = due /\ valEpochs = due

\* C4: every forward pass of a validation pass runs with the network in
\* eval mode and without optimizer step; the network is in training mode
\* only in the training part of an epoch.
C4_ValInEval ==
    /\ (lastCall.phase = "val") => (~lastCall.training /\ ~lastCall.stepped)
    /\ (pc = "val_loop") => ~model_training

\* C5: train performs one update per (epoch, batch, noise level) in
\* epoch-major order, never stops early, and returns after E*B*N updates
\* with the checkpoint holding the parameters of the last update.
C5_TrainCompletes ==
    /\ TrainActive => pc # "raised"
    /\ (pc = "train_loop") =>
          nUpdates = (epoch_idx * nTrain + batch_idx) * Len(train_noises) + noise_idx
    /\ trainReturned =>
          /\ epoch_idx = args.epoches
          /\ nUpdates = args.epoches * nTrain * Len(train_noises)
          /\ ckpt[CkptName(args.is_gray)] = [state |-> "saved", version |-> nUpdates]

\* C6: the image handed to the forward pass of test has even width and
\* height (a dimension grows by exactly 1 iff it is odd), and the cropped
\* prediction has the original width and height.
C6_PadCrop ==
    (lastCall.phase = "test") =>
        /\ lastCall.inw % 2 = 0 /\ lastCall.inh % 2 = 0
        /\ lastCall.inw = lastCall.origw + (lastCall.origw % 2)
        /\ lastCall.inh = lastCall.origh + (lastCall.origh % 2)
        /\ lastCall.returned =>
              (lastCall.outw = lastCall.origw /\ lastCall.outh = lastCall.origh)

C6_Witness ==
    /\ lastCall.phase = "test" /\ lastCall.returned
    /\ lastCall.origw = 3 /\ lastCall.origh = 1
    /\ lastCall.inw = 4 /\ lastCall.outw = 3 /\ lastCall.outh = 1
    /\ Len(outputs) = 1

\* C7: at every call of the network the parameters, the image batch and the
\* noise-level tensor are on one device.
C7_SameDevice ==
    (lastCall.phase # "none") =>
        (lastCall.mdev = lastCall.idev /\ lastCall.idev = lastCall.sdev)

\* C8: every checkpoint file the run reads or writes is the one of the
\* configured is_gray variant, and test loads the file train saved.
C8_SeparateCkpt ==
    /\ (filesRead \cup filesWritten) \subseteq {CkptName(args.is_gray)}
    /\ (trainReturned /\ filesRead # {}) => filesRead \subseteq filesWritten

\* C9: test writes outputs in listing order, one per processed file; once a
\* file fails to decode the run has raised at that file, with outputs for
\* exactly the earlier files and nothing for it or any later file.
C9_DecodeAbort ==
    /\ outputs = [i \in 1..Len(outputs) |-> i - 1]
    /\ Len(outputs) <= file_idx
    /\ (badFiles # {}) =>
          /\ pc = "raised" /\ err = "DecodeError"
          /\ badFiles = {file_idx}
          /\ Len(outputs) = file_idx

C9_Witness ==
    /\ pc = "raised" /\ err = "DecodeError"
    /\ badFiles = {1} /\ outputs = <<0>> /\ nFiles = 2

\* C10: whenever an average loss is computed the step counter is positive
\* and equals batches * noise levels; no division by zero is reachable.
C10_NoDivZero ==
    /\ err # "ZeroDivisionError"
    /\ (pc = "train_loop" /\ batch_idx = nTrain) =>
          (loss_idx > 0 /\ loss_idx = nTrain * Len(train_noises))
    /\ (pc = "val_loop" /\ batch_idx = nVal) =>
          (loss_idx > 0 /\ loss_idx = nVal * Len(val_noises))
====
